---- MODULE Spec2Model ----
(***************************************************************************)
(* The tonic_rpc attribute macro of tonic-rpc-macro: an interface          *)
(* definition (a trait) is turned into a service descriptor, type aliases  *)
(* and the client and server code of the stub generator (tonic_build).     *)
(*                                                                         *)
(* Token streams are sequences of tokens, identifiers are strings, and the *)
(* stub generator is represented by what it reads through the Service and  *)
(* Method traits when it is called.                                        *)
(***************************************************************************)
EXTENDS Naturals, Sequences, FiniteSets, TLC

\* ------------------------------------------------------------------ bounds
\* Longest parameter list of a method declaration.
MaxArgs == 2
\* Most items in the body of one interface definition.
MaxItems == 3
\* Most interface definitions in one module (SpecModule).
MaxTraits == 2
\* Most items in the body of an interface definition of a module (SpecModule).
MaxModuleItems == 1

\* ------------------------------------------------------------ token streams
Tok(k, t) == [kind |-> k, text |-> t]

\* The token stream of a type written as one identifier.
TypePath(t) == <<Tok("Ident", t)>>

\* The token stream of the type `()`: an empty parenthesised group.
UnitType == <<Tok("Group", "()")>>

\* What quote! { "()" } produces: one string literal token.
QuotedUnit == <<Tok("Literal", "\"()\"")>>

\* ------------------------------------------------------------------- inputs
TraitNames == {"A", "A_b"}
MethodNames == {"c", "b_c"}
Selectors == {"json", "cbor"}
AttrSets == {{}, {"server_streaming"}, {"client_streaming"}}

Typed(ty) == [kind |-> "Typed", ty |-> ty]
Receiver == [kind |-> "Receiver", ty |-> <<>>]

\* Parameter lists: a receiver can only come first.
ArgLists ==
    { a \in UNION { [1..n -> {Typed(TypePath("X")), Receiver}] : n \in 0..MaxArgs } :
        \A i \in DOMAIN a : i > 1 => a[i].kind = "Typed" }

\* syn's Punctuated<FnArg, Comma>: the parameters and whether a comma follows
\* the last one.
Inputs ==
    { [args |-> a, trailing |-> t] : a \in ArgLists, t \in BOOLEAN } \
        { [args |-> <<>>, trailing |-> TRUE] }

ReturnTypes == { [kind |-> "Default", ty |-> <<>>], [kind |-> "Type", ty |-> TypePath("Z")] }

\* syn's TraitItemMethod: attributes and signature.
MethodDecls ==
    { [kind |-> "Method", attrs |-> at, sig |-> [ident |-> n, inputs |-> i, output |-> o]] :
        at \in AttrSets, n \in MethodNames, i \in Inputs, o \in ReturnTypes }

\* syn's TraitItem: a method, or anything else (a constant, an associated type).
TraitItems == MethodDecls \cup { [kind |-> "Const"] }

\* ---------------------------------------------------------------- adapter
CODEC_PATH == "tonic_rpc::json_codec::MyCodec"

\* Punctuated::into_pairs: every parameter followed by a comma is
\* Pair::Punctuated, a last parameter without one is Pair::End.
into_pairs(inputs) ==
    [ i \in 1..Len(inputs.args) |->
        [ pair  |-> IF i < Len(inputs.args) \/ inputs.trailing THEN "Punctuated" ELSE "End",
          value |-> inputs.args[i] ] ]

arity_nonzero(args) == Len(args) >= 1
\* `if args.len() != 1 { panic!(..) }`
arity_ok(args) == Len(args) = 1

has_misnamed_attr(attrs) == \E attr \in attrs : attr = "streaming"
\* `.any(|attr| attr.path.is_ident("server_streaming"))`
has_server_streaming(attrs) == \E attr \in attrs : attr = "server_streaming"

generated_request_no_method(trait_name, name) ==
    "__tonic_generated_" \o trait_name \o "_request"
\* format_ident!("__tonic_generated_{}_{}_request", trait_name, name)
generated_request(trait_name, name) ==
    "__tonic_generated_" \o trait_name \o "_" \o name \o "_request"

\* format_ident!("__tonic_generated_{}_{}_response", trait_name, name)
generated_response(trait_name, name) ==
    "__tonic_generated_" \o trait_name \o "_" \o name \o "_response"

Panicked == [panicked |-> TRUE]
Returned(v) == [panicked |-> FALSE, value |-> v]

make_method(method, trait_name) ==
    LET name == method.sig.ident
        server_streaming == has_server_streaming(method.attrs)
        args == into_pairs(method.sig.inputs)
    IN  IF ~arity_ok(args) THEN Panicked
        ELSE LET popped == args[Len(args)] IN
             IF ~(popped.pair = "End" /\ popped.value.kind = "Typed") THEN Panicked
             ELSE LET request == popped.value.ty
                      response == IF method.sig.output.kind = "Default"
                                  THEN QuotedUnit
                                  ELSE method.sig.output.ty
                  IN  Returned([ identifier |-> name,
                                 name |-> name,
                                 client_streaming |-> FALSE,
                                 server_streaming |-> server_streaming,
                                 request |-> request,
                                 response |-> response,
                                 generated_request |-> generated_request(trait_name, name),
                                 generated_response |-> generated_response(trait_name, name) ])

request_response_original(m) == <<m.request, m.response>>
\* Method::request_response_name: the two aliases, qualified with `super::`.
request_response_name(m) ==
    << <<Tok("Ident", "super"), Tok("Punct", "::"), Tok("Ident", m.generated_request)>>,
       <<Tok("Ident", "super"), Tok("Punct", "::"), Tok("Ident", m.generated_response)>> >>

\* What the stub generator reads of one method through `impl Method for MyMethod`.
method_view(m) ==
    [ name |-> m.name,
      identifier |-> m.identifier,
      comment |-> <<>>,
      client_streaming |-> m.client_streaming,
      server_streaming |-> m.server_streaming,
      codec_path |-> CODEC_PATH,
      request_response_name |-> request_response_name(m) ]

\* tonic_build::client::generate / tonic_build::server::generate: the generated
\* code is a function of what is read through `impl Service for MyService`.
generate(side, service, proto_path) ==
    [ side |-> side,
      proto_path |-> proto_path,
      name |-> service.name,
      package |-> service.package,
      identifier |-> service.identifier,
      comment |-> <<>>,
      codec_path |-> CODEC_PATH,
      methods |-> [ i \in 1..Len(service.methods) |-> method_view(service.methods[i]) ] ]

\* The `type` declarations of all methods, two per method, in method order.
types_of(ms) ==
    [ i \in 1..(2 * Len(ms)) |->
        LET m == ms[(i + 1) \div 2] IN
        IF i % 2 = 1
        THEN [kind |-> "TypeAlias", name |-> m.generated_request, ty |-> m.request]
        ELSE [kind |-> "TypeAlias", name |-> m.generated_response, ty |-> m.response] ]

push_front(acc, m) == <<m>> \o acc
\* `.collect()` into a Vec: each Some(..) of the closure goes to the end.
push(acc, m) == Append(acc, m)

\* ----------------------------------------------------------------- state
VARIABLES
    pending,      \* item counts of the interface definitions still to expand
    pc,           \* "idle", "collect" (inside filter_map) or "panicked"
    remaining,    \* items of the current body not yet visited
    attributes,   \* the macro's attribute argument (the codec selector)
    name,         \* trait_.ident of the current interface definition
    methods,      \* the Vec<MyMethod> collected so far
    seen,         \* the items of the current body visited so far
    module,       \* the output token streams of the finished expansions
    expanded,     \* attribute argument and trait name of each finished expansion
    calls,        \* number of calls of the stub generator
    method,       \* the declaration handed to make_method (SpecMake)
    trait_name,   \* the trait name handed to make_method (SpecMake)
    made          \* what make_method did with it (SpecMake)

pipeline == <<pending, pc, remaining, attributes, name, methods, seen, module, expanded, calls>>
single == <<method, trait_name, made>>
vars == <<pending, pc, remaining, attributes, name, methods, seen, module, expanded, calls,
          method, trait_name, made>>

NotCalled == [status |-> "none"]

\* No expansion has started.
Idle ==
    /\ pc = "idle"
    /\ remaining = 0
    /\ attributes = ""
    /\ name = ""
    /\ methods = <<>>
    /\ seen = <<>>
    /\ module = <<>>
    /\ expanded = <<>>
    /\ calls = 0

NoCall ==
    /\ method = [kind |-> "Const"]
    /\ trait_name = ""
    /\ made = NotCalled

\* One interface definition of up to MaxItems items.
Init ==
    /\ pending \in { <<n>> : n \in 0..MaxItems }
    /\ Idle
    /\ NoCall

\* A module of up to MaxTraits interface definitions.
InitModule ==
    /\ pending \in UNION { [1..k -> 0..MaxModuleItems] : k \in 1..MaxTraits }
    /\ Idle
    /\ NoCall

\* make_method alone, on one declaration.
InitMake ==
    /\ pending = <<>>
    /\ Idle
    /\ method \in MethodDecls
    /\ trait_name \in TraitNames
    /\ made = NotCalled

\* ------------------------------------------------------------- tonic_rpc
\* The compiler calls the macro on the next annotated trait; the trait is
\* parsed and its name taken.
TonicRpcParse ==
    /\ pc = "idle"
    /\ pending # <<>>
    /\ \E a \in Selectors, ident \in TraitNames :
         /\ attributes' = a
         /\ name' = ident
    /\ remaining' = Head(pending)
    /\ pending' = Tail(pending)
    /\ methods' = <<>>
    /\ seen' = <<>>
    /\ pc' = "collect"
    /\ UNCHANGED <<module, expanded, calls, method, trait_name, made>>

\* filter_map closure on a method item that make_method accepts.
FilterMapMethod ==
    /\ pc = "collect"
    /\ remaining > 0
    /\ \E item \in MethodDecls :
         /\ ~make_method(item, name).panicked
         /\ methods' = push(methods, make_method(item, name).value)
         /\ seen' = Append(seen, item)
    /\ remaining' = remaining - 1
    /\ UNCHANGED <<pending, pc, attributes, name, module, expanded, calls,
                   method, trait_name, made>>

\* filter_map closure on a method item on which make_method panics: the
\* panic unwinds out of the macro and the build fails.
FilterMapPanic ==
    /\ pc = "collect"
    /\ remaining > 0
    /\ \E item \in MethodDecls :
         /\ make_method(item, name).panicked
         /\ seen' = Append(seen, item)
    /\ remaining' = remaining - 1
    /\ pc' = "panicked"
    /\ UNCHANGED <<pending, attributes, name, methods, module, expanded, calls,
                   method, trait_name, made>>

\* filter_map closure on any other item: None.
FilterMapSkip ==
    /\ pc = "collect"
    /\ remaining > 0
    /\ \E item \in TraitItems \ MethodDecls :
         seen' = Append(seen, item)
    /\ remaining' = remaining - 1
    /\ UNCHANGED <<pending, pc, attributes, name, methods, module, expanded, calls,
                   method, trait_name, made>>

\* The items are exhausted: the service is assembled, the stub generator is
\* called for the client and the server, and the output is the aliases, the
\* client and the server.
TonicRpcEmit ==
    /\ pc = "collect"
    /\ remaining = 0
    /\ LET service == [package |-> name, identifier |-> name, name |-> name,
                       methods |-> methods]
           client == generate("client", service, "")
           server == generate("server", service, "")
           types == types_of(service.methods)
       IN  module' = Append(module,
                            types \o << [kind |-> "Client", code |-> client],
                                        [kind |-> "Server", code |-> server] >>)
    /\ expanded' = Append(expanded, [attributes |-> attributes, name |-> name])
    /\ calls' = calls + 2
    /\ pc' = "idle"
    /\ UNCHANGED <<pending, remaining, attributes, name, methods, seen,
                   method, trait_name, made>>

Next ==
    \/ TonicRpcParse
    \/ FilterMapMethod
    \/ FilterMapPanic
    \/ FilterMapSkip
    \/ TonicRpcEmit

Spec == Init /\ [][Next]_vars

SpecModule == InitModule /\ [][Next]_vars

\* ----------------------------------------------------------- make_method
MakeMethodReturns ==
    /\ made = NotCalled
    /\ method \in MethodDecls
    /\ ~make_method(method, trait_name).panicked
    /\ made' = [status |-> "ok", value |-> make_method(method, trait_name).value]
    /\ UNCHANGED <<method, trait_name>>
    /\ UNCHANGED pipeline

MakeMethodPanics ==
    /\ made = NotCalled
    /\ method \in MethodDecls
    /\ make_method(method, trait_name).panicked
    /\ made' = [status |-> "panicked"]
    /\ UNCHANGED <<method, trait_name>>
    /\ UNCHANGED pipeline

NextMake == MakeMethodReturns \/ MakeMethodPanics

SpecMake == InitMake /\ [][NextMake]_vars

\* ------------------------------------------------------------ properties
NArgs(d) == Len(d.sig.inputs.args)

C2_DefaultReturnIsUnit ==
    (made.status = "ok" /\ method.sig.output.kind = "Default") =>
        made.value.response = UnitType

\* C3: an accepted method with the server_streaming attribute has
\* server_streaming = true and client_streaming = false; an accepted method
\* without attributes has both false.
C3_StreamingFlags ==
    made.status = "ok" =>
        /\ "server_streaming" \in method.attrs =>
             (made.value.server_streaming /\ ~made.value.client_streaming)
        /\ method.attrs = {} =>
             (~made.value.server_streaming /\ ~made.value.client_streaming)

C3_Witness ==
    /\ made.status = "ok"
    /\ method.attrs = {"server_streaming"}
    /\ made.value.server_streaming

\* C4: an accepted method with the client_streaming attribute has
\* client_streaming = true in its descriptor.
C4_ClientStreamingByAnnotation ==
    (made.status = "ok" /\ "client_streaming" \in method.attrs) =>
        made.value.client_streaming

\* The code of the given side emitted by expansion i.
CodeOf(i, side) ==
    LET out == module[i]
    IN  (CHOOSE it \in { out[k] : k \in DOMAIN out } : it.kind = side).code

\* C5: two finished expansions whose selectors differ were generated with
\* different codec identifiers, and every method carries the codec
\* identifier of its service.
C5_CodecFollowsSelector ==
    /\ \A i, j \in DOMAIN module :
         expanded[i].attributes # expanded[j].attributes =>
            CodeOf(i, "Client").codec_path # CodeOf(j, "Client").codec_path
    /\ \A i \in DOMAIN module : \A side \in {"Client", "Server"} :
         \A k \in DOMAIN CodeOf(i, side).methods :
            CodeOf(i, side).methods[k].codec_path = CodeOf(i, side).codec_path

\* C6: within one service, methods with different names have different
\* request aliases and different response aliases, and no request alias is
\* a response alias.
C6_AliasesUniqueInService ==
    \A i, j \in DOMAIN methods :
        /\ methods[i].name # methods[j].name =>
             /\ methods[i].generated_request # methods[j].generated_request
             /\ methods[i].generated_response # methods[j].generated_response
        /\ methods[i].generated_request # methods[j].generated_response

C6_Witness ==
    /\ pc = "idle"
    /\ module # <<>>
    /\ \E i, j \in DOMAIN methods : methods[i].name # methods[j].name

\* The aliases declared in the module, each with the service and the method
\* it was synthesized for.
DeclaredAliases ==
    UNION { { [ service |-> CodeOf(i, "Client").name,
                method |-> CodeOf(i, "Client").methods[k].name,
                request |-> CodeOf(i, "Client").methods[k].request_response_name[1][3].text,
                response |-> CodeOf(i, "Client").methods[k].request_response_name[2][3].text ] :
              k \in DOMAIN CodeOf(i, "Client").methods } :
            i \in DOMAIN module }

\* C7: within one module, two different (service, method) pairs have
\* different request aliases and different response aliases.
C7_AliasesUniqueInModule ==
    \A a, b \in DeclaredAliases :
        (a.service # b.service \/ a.method # b.method) =>
            (a.request # b.request /\ a.response # b.response)

\* A declaration of the shape `name(parameter: Type)`: one parameter, typed,
\* with no comma after it.
WellFormed(d) ==
    /\ NArgs(d) = 1
    /\ d.sig.inputs.args[1].kind = "Typed"
    /\ ~d.sig.inputs.trailing

\* The names of the method items of a body, in declaration order.
RECURSIVE MethodNamesOf(_)
MethodNamesOf(items) ==
    IF items = <<>> THEN <<>>
    ELSE IF Head(items).kind = "Method"
         THEN <<Head(items).sig.ident>> \o MethodNamesOf(Tail(items))
         ELSE MethodNamesOf(Tail(items))

AllWellFormed(items) ==
    \A k \in DOMAIN items : items[k].kind = "Method" => WellFormed(items[k])

Malformed(d) == d.kind = "Method" /\ NArgs(d) # 1

Qualified(alias) == <<Tok("Ident", "super"), Tok("Punct", "::"), Tok("Ident", alias)>>

\* C10: the output of a finished expansion is, in this order, the two alias
\* declarations of each method in method order (request alias bound to the
\* method's request type, response alias to its response type), the client
\* and the server; and the stub generator was handed, for each method, the
\* two aliases and not the original types.
C10_AliasClosure ==
    (pc = "idle" /\ module # <<>>) =>
        LET out == module[Len(module)]
            n == Len(methods)
        IN  /\ Len(out) = 2 * n + 2
            /\ \A k \in 1..n :
                 /\ out[2 * k - 1] = [kind |-> "TypeAlias",
                                      name |-> methods[k].generated_request,
                                      ty |-> methods[k].request]
                 /\ out[2 * k] = [kind |-> "TypeAlias",
                                  name |-> methods[k].generated_response,
                                  ty |-> methods[k].response]
            /\ out[2 * n + 1].kind = "Client"
            /\ out[2 * n + 2].kind = "Server"
            /\ \A side \in {2 * n + 1, 2 * n + 2} :
                 /\ Len(out[side].code.methods) = n
                 /\ \A k \in 1..n :
                      out[side].code.methods[k].request_response_name =
                          << Qualified(methods[k].generated_request),
                             Qualified(methods[k].generated_response) >>

C10_Witness ==
    /\ pc = "idle"
    /\ module # <<>>
    /\ Len(methods) = 2
    /\ methods[1].response # methods[2].response
    /\ methods[1].name # methods[2].name
====
